---- MODULE Spec2Model ----
(***************************************************************************)
(* Model of the asset catalog API: upload (routes/asset/upload.ts), the    *)
(* moderation queue (approval-queue.ts and its revisions in                *)
(* unnamed/part_009) and the download-history ledger (unnamed/part_010).   *)
(* Every request handler is a process in a slot; each await on the         *)
(* database or on the object store is one step, so concurrent requests     *)
(* interleave between awaits exactly as the runtime allows.                *)
(***************************************************************************)
EXTENDS Integers, Sequences, FiniteSets, TLC

\* ---------------------------------------------------------------- bounds
MaxAssets == 1          \* asset ids uuidv7() may hand out in one run
MaxNewBatches == 3      \* history ids uuidv7() may hand out in one run
MaxClock == 1           \* seconds the clock may advance in one run
MaxSaves == 3           \* saved_asset ids handed out in one run
CatalogSize == 52       \* assets, saved assets and history batches of InitSearch

\* ------------------------------------------------------- program constants
HistoryCap == 500       \* part_010:87   if (currentCount >= 500)
HistoryKeep == 499      \* part_010:88   toDelete = currentCount - 499

\* InitHistory: user u1 is one batch below the cap
Prefill == HistoryCap - 1

\* ------------------------------------------------------------ small sets
Slots == {1, 2}                           \* concurrently running requests
Users == {"u1", "u2", "u3"}
Games == {"g1"}
Categories == {"c1", "c2", "c3"}
Tags == {"t1", "t2"}                      \* rows of table tag
TagInputs == {{"t1", "t9"}}               \* the form's tags: a known and an unknown id
Files == {"f1", "f2"}                     \* distinguishable file contents
NoFile == "nofile"
NoSession == ""                           \* a request without a valid session

\* user.role of the session user (lib/auth/middleware.ts:19-22)
role == [u \in Users |-> CASE u = "u1" -> "admin"
                           [] u = "u2" -> "contributor"
                           [] OTHER    -> "user"]

ALLOWED_MIME_TYPES == {"image/png", "image/jpeg", "image/jpg"}
ALLOWED_EXTENSIONS == {"png", "jpg", "jpeg"}
MimeInputs == {"image/png", "text/html"}
ExtInputs == {"png", "exe"}

VARIABLES
    asset,                  \* table asset: id -> row
    gameToCategory,         \* table game_to_category: set of <<gameId, categoryId>>
    assetToTag,             \* table asset_to_tag: set of <<assetId, tagId>>
    CDN,                    \* object store: path -> content
    nextAssetId,            \* next value of uuidv7() for assets
    downloadHistory,        \* table download_history: committed rows, in rowid order
    downloadHistoryToAsset, \* table download_history_to_asset: committed rows
    tx,                     \* the open write transaction and its uncommitted writes
    nextHistoryId,          \* next value of uuidv7() for history rows
    now,                    \* new Date(), in seconds (timestamp mode)
    recorded,               \* per user: number of recordBatch calls answered 200
    savedAsset,             \* table saved_asset: set of rows
    nextSavedId,            \* next value of the id of a saved_asset row
    search,                 \* the response of the last list or search request
    req                     \* per slot: the request being handled

vars == <<asset, gameToCategory, assetToTag, CDN, nextAssetId, downloadHistory,
          downloadHistoryToAsset, tx, nextHistoryId, now, recorded, savedAsset,
          nextSavedId, search, req>>

modVars == <<asset, gameToCategory, assetToTag, CDN, nextAssetId>>
histVars == <<downloadHistory, downloadHistoryToAsset, tx, nextHistoryId, now, recorded>>
userVars == <<savedAsset, nextSavedId>>

\* a query string: every parameter is a string, <<>> when absent or empty
NoQuery == [caller |-> "", restricted |-> FALSE, tags |-> <<>>, offset |-> <<>>,
            page |-> <<>>, limit |-> <<>>, sortBy |-> "", sortOrder |-> ""]
NoSearch == [route |-> "none", query |-> NoQuery, code |-> 0, ids |-> <<>>,
             hasNext |-> FALSE, limit |-> 0]

NoAsset == [status |-> "none", gameId |-> "", categoryId |-> "", extension |-> "",
            uploadedBy |-> ""]
NoTx == [owner |-> 0, deletedHistory |-> {}, deletedLinksOf |-> {},
         insertedHistory |-> <<>>, insertedLinks |-> <<>>]

Idle == [op |-> "none", pc |-> "idle", user |-> "", id |-> 0, found |-> NoAsset,
         file |-> NoFile, gameId |-> "", categoryId |-> "", extension |-> "",
         tags |-> {}, assetIds |-> <<>>, currentCount |-> 0, idsToDelete |-> {},
         historyId |-> 0, webhook |-> "none", assets |-> {}, code |-> 0]

\* A response that has been produced leaves before any handler takes its
\* next step: a response carries no state another request reads, so letting
\* it linger adds no behaviour of the tables or of the other request.
NoResponsePending == \A q \in Slots : req[q].pc # "respond"

\* A request starts in the lowest idle slot (slots are interchangeable).
Free(s) ==
    /\ NoResponsePending
    /\ req[s].pc = "idle" /\ \A q \in Slots : q < s => req[q].pc # "idle"

\* handler s is about to run the step pc of route op
At(s, op, pc) == NoResponsePending /\ req[s].op = op /\ req[s].pc = pc

\* return ctx.json(..., code): the handler has produced its response
Done(s, code) ==
    req' = [req EXCEPT ![s] = [Idle EXCEPT !.op = req[s].op, !.pc = "respond",
                                           !.user = req[s].user, !.id = req[s].id,
                                           !.gameId = req[s].gameId,
                                           !.categoryId = req[s].categoryId,
                                           !.historyId = req[s].historyId,
                                           !.code = code]]

Goto(s, pc) == req' = [req EXCEPT ![s].pc = pc]

\* ------------------------------------- sessions (lib/auth/middleware.ts)

\* requireAuth, middleware.ts:45-67: 401 without a session, else next()
requireAuth(u) == IF u = NoSession THEN 401 ELSE 0

requireAdmin_AnySession(u) == 0

\* requireAdmin, middleware.ts:80-89: 403 unless the session user is an admin
requireAdmin(u) == IF u = NoSession \/ role[u] # "admin" THEN 403 ELSE 0

\* ---------------------------------------------- notification webhook

\* with DISCORD_WEBHOOK set: the POST is answered 2xx, answered otherwise, or
\* fetch rejects (network error)
WebhookOutcomes == {"ok", "non2xx", "throws"}

webhookReturns_Propagates(outcome) == outcome = "ok"

\* try { await fetch(DISCORD_WEBHOOK, ...) } catch (err) { console.error(...) }
\* (part_009:523-550, 578-605; approval-queue.ts:120-146, 167-193;
\* upload.ts:271-285): does the handler go on to its return statement
webhookReturns(outcome) == TRUE

\* the notification, then return ctx.json({ success: true }, code)
DoneNotified(s, code) ==
    \E outcome \in WebhookOutcomes :
        req' = [req EXCEPT ![s] = [Idle EXCEPT !.op = req[s].op, !.pc = "respond",
                                               !.user = req[s].user, !.id = req[s].id,
                                               !.gameId = req[s].gameId,
                                               !.categoryId = req[s].categoryId,
                                               !.webhook = outcome,
                                               !.code = IF webhookReturns(outcome)
                                                        THEN code ELSE 500]]

\* ===================================================== upload (upload.ts)

\* validateFile, upload.ts:74-114 (a file object with type, name and size)
validateFile(mime, extension, sizeOk) ==
    /\ mime \in ALLOWED_MIME_TYPES
    /\ sizeOk
    /\ extension \in ALLOWED_EXTENSIONS

determineAssetStatus_AlwaysPending(userRole) == "pending"

\* determineAssetStatus, upload.ts:116-118
determineAssetStatus(userRole) == IF userRole = "admin" THEN "approved" ELSE "pending"

\* getStoragePath, upload.ts:120-123: `${folder}/${assetId}.${extension}`
getStoragePath(assetId, extension, isAdmin) ==
    <<IF isAdmin THEN "asset" ELSE "limbo", assetId, extension>>

\* ctx.get('fullUser'): the session user with its role
fullUser(s) == [id |-> req[s].user, role |-> role[req[s].user]]

\* upload.ts:320-364: role check, form parsing and validateFile; nothing is
\* awaited from the store before validateCategoryGameLink.
AssetUploadRoute(s) ==
    /\ Free(s)
    /\ nextAssetId <= MaxAssets
    /\ \E u \in Users \cup {NoSession} :
          LET r == [Idle EXCEPT !.op = "upload", !.user = u] IN
          IF requireAuth(u) # 0
          THEN req' = [req EXCEPT ![s] = [r EXCEPT !.pc = "respond",
                                                   !.code = requireAuth(u)]]
          ELSE IF role[u] \notin {"admin", "contributor"}
          THEN req' = [req EXCEPT ![s] = [r EXCEPT !.pc = "respond", !.code = 403]]
          ELSE \E m \in MimeInputs, e \in ExtInputs, ok \in BOOLEAN :
               IF ~validateFile(m, e, ok)
               THEN req' = [req EXCEPT ![s] = [r EXCEPT !.pc = "respond", !.code = 400]]
               ELSE \E g \in Games, c \in Categories, t \in TagInputs, f \in Files :
                    req' = [req EXCEPT ![s] = [r EXCEPT !.pc = "link_select",
                                                        !.gameId = g, !.categoryId = c,
                                                        !.tags = t, !.extension = e,
                                                        !.file = f]]
    /\ UNCHANGED <<modVars, userVars, search, histVars>>

validateCategoryGameLink_select_NoRoleCheck(s) ==
    /\ At(s, "upload", "link_select")
    /\ Goto(s, "put")
    /\ UNCHANGED <<modVars, userVars, search, histVars>>

\* validateCategoryGameLink, upload.ts:131-148 and the 400 of upload.ts:370-378
validateCategoryGameLink_select(s) ==
    /\ At(s, "upload", "link_select")
    /\ IF <<req[s].gameId, req[s].categoryId>> \in gameToCategory
       THEN Goto(s, "put")
       ELSE IF fullUser(s).role = "admin"
       THEN Goto(s, "link_insert")
       ELSE Done(s, 400)
    /\ UNCHANGED <<modVars, userVars, search, histVars>>

\* upload.ts:141-145; the pair is the table's primary key, so inserting a pair
\* a concurrent upload has inserted meanwhile throws, caught at upload.ts:439
validateCategoryGameLink_insert(s) ==
    /\ At(s, "upload", "link_insert")
    /\ IF <<req[s].gameId, req[s].categoryId>> \in gameToCategory
       THEN Done(s, 500) /\ UNCHANGED gameToCategory
       ELSE /\ gameToCategory' = gameToCategory \cup {<<req[s].gameId, req[s].categoryId>>}
            /\ Goto(s, "put")
    /\ UNCHANGED <<asset, assetToTag, CDN, nextAssetId, histVars, userVars, search>>

\* upload.ts:380-394 and uploadFileToStorage, upload.ts:151-161
uploadFileToStorage(s) ==
    /\ At(s, "upload", "put")
    /\ nextAssetId <= MaxAssets
    /\ \E stored \in BOOLEAN :
          IF stored
          THEN /\ CDN' = (getStoragePath(nextAssetId, req[s].extension,
                                         fullUser(s).role = "admin") :> req[s].file) @@ CDN
               /\ req' = [req EXCEPT ![s].pc = "create", ![s].id = nextAssetId,
                                     ![s].file = NoFile]
          ELSE /\ UNCHANGED CDN
               /\ req' = [req EXCEPT ![s] = [Idle EXCEPT !.op = "upload", !.pc = "respond",
                                                         !.user = req[s].user,
                                                         !.id = nextAssetId,
                                                         !.code = 500]]
    /\ nextAssetId' = nextAssetId + 1
    /\ UNCHANGED <<asset, gameToCategory, assetToTag, histVars, userVars, search>>

\* createAsset, upload.ts:163-186, called at upload.ts:396-406; when the
\* insert throws, the catch of upload.ts:439-448 answers 500
createAsset(s) ==
    /\ At(s, "upload", "create")
    /\ \E inserted \in BOOLEAN :
          IF inserted
          THEN /\ asset' = (req[s].id :> [status |-> determineAssetStatus(fullUser(s).role),
                                          gameId |-> req[s].gameId,
                                          categoryId |-> req[s].categoryId,
                                          extension |-> req[s].extension,
                                          uploadedBy |-> fullUser(s).id]) @@ asset
               /\ req' = [req EXCEPT ![s].pc = "tags", ![s].gameId = "",
                                     ![s].categoryId = "", ![s].extension = ""]
          ELSE /\ UNCHANGED asset
               /\ Done(s, 500)
    /\ UNCHANGED <<gameToCategory, assetToTag, CDN, nextAssetId, histVars, userVars, search>>

\* attachTags, upload.ts:188-203, then the names, the notification and the
\* 200 of upload.ts:411-438 (none of which writes)
attachTags(s) ==
    /\ At(s, "upload", "tags")
    /\ assetToTag' = assetToTag \cup {<<req[s].id, t>> : t \in req[s].tags \cap Tags}
    /\ DoneNotified(s, 200)
    /\ UNCHANGED <<asset, gameToCategory, CDN, nextAssetId, histVars, userVars, search>>

\* ============================== moderation (part_009, approval-queue.ts)

Remove(f, k) == [x \in DOMAIN f \ {k} |-> f[x]]

limboPath(a, id) == <<"limbo", id, a.extension>>
assetPath(a, id) == <<"asset", id, a.extension>>

\* requireAuth, requireAdmin / the inline role check (part_009:231-236,
\* 263-268, 495, 557; approval-queue.ts:104, 152) and the first select
\* (part_009:241-245, 506-510; approval-queue.ts:112-116)
Select(s, op, next) ==
    /\ Free(s)
    /\ \E u \in Users \cup {NoSession}, id \in 1..MaxAssets :
          LET r == [Idle EXCEPT !.op = op, !.id = id, !.user = u] IN
          IF requireAuth(u) # 0
          THEN req' = [req EXCEPT ![s] = [r EXCEPT !.pc = "respond",
                                                   !.code = requireAuth(u)]]
          ELSE IF requireAdmin(u) # 0
          THEN req' = [req EXCEPT ![s] = [r EXCEPT !.pc = "respond",
                                                   !.code = requireAdmin(u)]]
          ELSE IF id \notin DOMAIN asset
          THEN req' = [req EXCEPT ![s] = [r EXCEPT !.pc = "respond", !.code = 404]]
          ELSE req' = [req EXCEPT ![s] = [r EXCEPT !.pc = next, !.found = asset[id]]]
    /\ UNCHANGED <<modVars, userVars, search, histVars>>

\* drizzle.update(asset).set({ status }).where(eq(asset.id, id))
SetStatus(id, status) ==
    asset' = IF id \in DOMAIN asset THEN [asset EXCEPT ![id].status = status] ELSE asset

\* AssetApproveRoute, part_009:230-260 and 494-554
AssetApproveRoute(s) == Select(s, "approve", "update")

\* part_009:247, 512
AssetApproveRoute_update(s) ==
    /\ At(s, "approve", "update")
    /\ SetStatus(req[s].id, "approved")
    /\ Goto(s, "get")
    /\ UNCHANGED <<gameToCategory, assetToTag, CDN, nextAssetId, histVars, userVars, search>>

\* part_009:249-253, 514-518
AssetApproveRoute_get(s) ==
    /\ At(s, "approve", "get")
    /\ IF limboPath(req[s].found, req[s].id) \in DOMAIN CDN
       THEN req' = [req EXCEPT ![s].pc = "put",
                               ![s].file = CDN[limboPath(req[s].found, req[s].id)]]
       ELSE Done(s, 404)
    /\ UNCHANGED <<modVars, userVars, search, histVars>>

\* part_009:255, 520; a put the store rejects throws out of the handler (500)
AssetApproveRoute_put(s) ==
    /\ At(s, "approve", "put")
    /\ \E stored \in BOOLEAN :
          IF stored
          THEN /\ CDN' = (assetPath(req[s].found, req[s].id) :> req[s].file) @@ CDN
               /\ req' = [req EXCEPT ![s].pc = "delete", ![s].file = NoFile]
          ELSE /\ UNCHANGED CDN
               /\ Done(s, 500)
    /\ UNCHANGED <<asset, gameToCategory, assetToTag, nextAssetId, histVars, userVars, search>>

\* part_009:256-258, 521-552 (the notification writes nothing)
AssetApproveRoute_delete(s) ==
    /\ At(s, "approve", "delete")
    /\ \E deleted \in BOOLEAN :
          IF deleted
          THEN /\ CDN' = Remove(CDN, limboPath(req[s].found, req[s].id))
               /\ DoneNotified(s, 200)
          ELSE /\ UNCHANGED CDN
               /\ Done(s, 500)
    /\ UNCHANGED <<asset, gameToCategory, assetToTag, nextAssetId, histVars, userVars, search>>

\* AssetDenyRoute, part_009:262-285 and 556-609
AssetDenyRoute(s) == Select(s, "deny", "deleteRow")

AssetDenyRoute_deleteRow_NoCascade(s) ==
    /\ At(s, "deny", "deleteRow")
    /\ asset' = Remove(asset, req[s].id)
    /\ Goto(s, "deleteFile")
    /\ UNCHANGED <<assetToTag, gameToCategory, CDN, nextAssetId, histVars, userVars, search>>

\* part_009:278, 574: delete the row; asset_to_tag and saved_asset cascade
\* (0000_workable_talos.sql:33, 57), a row of download_history_to_asset that
\* references the asset makes the delete throw (0000_workable_talos.sql:49)
AssetDenyRoute_deleteRow(s) ==
    /\ At(s, "deny", "deleteRow")
    /\ IF \E i \in DOMAIN downloadHistoryToAsset :
             downloadHistoryToAsset[i].assetId = req[s].id
       THEN Done(s, 500) /\ UNCHANGED <<asset, assetToTag, savedAsset>>
       ELSE /\ asset' = Remove(asset, req[s].id)
            /\ assetToTag' = {l \in assetToTag : l[1] # req[s].id}
            /\ savedAsset' = {r \in savedAsset : r.assetId # req[s].id}
            /\ Goto(s, "deleteFile")
    /\ UNCHANGED <<gameToCategory, CDN, nextAssetId, histVars, nextSavedId, search>>

\* part_009:281-283, 576-607
AssetDenyRoute_deleteFile(s) ==
    /\ At(s, "deny", "deleteFile")
    /\ \E deleted \in BOOLEAN :
          IF deleted
          THEN /\ CDN' = Remove(CDN, limboPath(req[s].found, req[s].id))
               /\ DoneNotified(s, 200)
          ELSE /\ UNCHANGED CDN
               /\ Done(s, 500)
    /\ UNCHANGED <<asset, gameToCategory, assetToTag, nextAssetId, histVars, userVars, search>>

\* AssetApproveRoute as in approval-queue.ts:103-149: the status alone
AssetApproveRoute_statusOnly(s) == Select(s, "approveStatusOnly", "update")

\* approval-queue.ts:118-147
AssetApproveRoute_statusOnly_update(s) ==
    /\ At(s, "approveStatusOnly", "update")
    /\ SetStatus(req[s].id, "approved")
    /\ DoneNotified(s, 200)
    /\ UNCHANGED <<gameToCategory, assetToTag, CDN, nextAssetId, histVars, userVars, search>>

\* AssetDenyRoute as in approval-queue.ts:151-196: the status alone
AssetDenyRoute_statusOnly(s) == Select(s, "denyStatusOnly", "update")

\* approval-queue.ts:165-194
AssetDenyRoute_statusOnly_update(s) ==
    /\ At(s, "denyStatusOnly", "update")
    /\ SetStatus(req[s].id, "denied")
    /\ DoneNotified(s, 200)
    /\ UNCHANGED <<gameToCategory, assetToTag, CDN, nextAssetId, histVars, userVars, search>>

\* AssetApprovalQueueRoute, approval-queue.ts:75-101: the pending assets
AssetApprovalQueueRoute(s) ==
    /\ Free(s)
    /\ \E u \in Users \cup {NoSession} :
          LET r == [Idle EXCEPT !.op = "queue", !.user = u, !.pc = "respond"] IN
          IF requireAuth(u) # 0
          THEN req' = [req EXCEPT ![s] = [r EXCEPT !.code = requireAuth(u)]]
          ELSE IF requireAdmin(u) # 0
          THEN req' = [req EXCEPT ![s] = [r EXCEPT !.code = requireAdmin(u)]]
          ELSE req' = [req EXCEPT ![s] =
                          [r EXCEPT !.code = 200,
                                    !.assets = {id \in DOMAIN asset :
                                                   asset[id].status = "pending"}]]
    /\ UNCHANGED <<modVars, histVars, userVars, search>>

\* GET /asset/{id}, id.ts:97-132: 404 exactly when no row has the id
AssetIdRoute(id) == IF id \in DOMAIN asset THEN 200 ELSE 404

\* ------------------------------------------------ moderation specification
InitModeration ==
    /\ asset = <<>>
    /\ gameToCategory = {<<"g1", "c1">>}
    /\ assetToTag = {}
    /\ CDN = <<>>
    /\ nextAssetId = 1
    /\ downloadHistory = <<>>
    /\ downloadHistoryToAsset = <<>>
    /\ tx = NoTx
    /\ nextHistoryId = 1
    /\ now = 0
    /\ recorded = [u \in Users |-> 0]
    /\ savedAsset = {}
    /\ nextSavedId = 1
    /\ search = NoSearch
    /\ req = [s \in Slots |-> Idle]

\* the response leaves; the slot is free for the next request
Respond(s) ==
    /\ req[s].pc = "respond"
    /\ req' = [req EXCEPT ![s] = Idle]
    /\ UNCHANGED <<modVars, userVars, search, histVars>>

Upload(s) ==
    \/ AssetUploadRoute(s)
    \/ validateCategoryGameLink_select(s)
    \/ validateCategoryGameLink_insert(s)
    \/ uploadFileToStorage(s)
    \/ createAsset(s)
    \/ attachTags(s)
    \/ Respond(s)

\* upload.ts with the moderation routes of part_009
NextModeration ==
    \E s \in Slots :
        \/ Upload(s)
        \/ AssetApproveRoute(s)
        \/ AssetApproveRoute_update(s)
        \/ AssetApproveRoute_get(s)
        \/ AssetApproveRoute_put(s)
        \/ AssetApproveRoute_delete(s)
        \/ AssetDenyRoute(s)
        \/ AssetDenyRoute_deleteRow(s)
        \/ AssetDenyRoute_deleteFile(s)

SpecModeration == InitModeration /\ [][NextModeration]_vars

\* upload.ts with the moderation routes of approval-queue.ts
NextStatusOnly ==
    \E s \in Slots :
        \/ Upload(s)
        \/ AssetApproveRoute_statusOnly(s)
        \/ AssetApproveRoute_statusOnly_update(s)
        \/ AssetDenyRoute_statusOnly(s)
        \/ AssetDenyRoute_statusOnly_update(s)
        \/ AssetApprovalQueueRoute(s)

SpecStatusOnly == InitModeration /\ [][NextStatusOnly]_vars

\* ------------------------------------------------ moderation properties

Moderation == {"approve", "deny", "approveStatusOnly", "denyStatusOnly"}
Approvals == {"approve", "approveStatusOnly"}
Denials == {"deny", "denyStatusOnly"}

\* request s produces its response in this step
Returns(s) == req[s].pc \notin {"idle", "respond"} /\ req'[s].pc = "respond"

pairOf(a) == <<a.gameId, a.categoryId>>

\* C5: an approve of a pending asset that does not answer 200 (quarantine
\* file missing, or the relocation failed) leaves the asset pending, and it
\* answers 404 when the quarantine file is missing.
C5_StatusOnlyAfterRelocation ==
    [][\A s \in Slots :
          (/\ req[s].op = "approve"
           /\ req[s].found.status = "pending"
           /\ Returns(s)
           /\ req'[s].code # 200
           /\ req[s].id \in DOMAIN asset')
          => /\ asset'[req[s].id].status = "pending"
             /\ (limboPath(req[s].found, req[s].id) \notin DOMAIN CDN
                    => req'[s].code = 404)]_vars

\* C6: an approve of a pending asset A that answers 200 leaves A approved,
\* the quarantined content at asset/{A.id}.{A.ext} and nothing at
\* limbo/{A.id}.{A.ext}.
C6_ApproveMovesFile ==
    [][\A s \in Slots :
          (/\ req[s].op \in Approvals
           /\ req[s].found.status = "pending"
           /\ Returns(s)
           /\ req'[s].code = 200)
          => LET id == req[s].id
                 a == req[s].found IN
             /\ id \in DOMAIN asset'
             /\ asset'[id].status = "approved"
             /\ assetPath(a, id) \in DOMAIN CDN'
             /\ limboPath(a, id) \in DOMAIN CDN
             /\ CDN'[assetPath(a, id)] = CDN[limboPath(a, id)]
             /\ limboPath(a, id) \notin DOMAIN CDN']_vars

\* C7: a deny of a pending asset A that answers 200 leaves no row of A and
\* nothing at limbo/{A.id}.{A.ext}, and GET /asset/{A.id} answers 404.
C7_DenyRemovesRowAndFile ==
    [][\A s \in Slots :
          (/\ req[s].op \in Denials
           /\ req[s].found.status = "pending"
           /\ Returns(s)
           /\ req'[s].code = 200)
          => /\ req[s].id \notin DOMAIN asset'
             /\ limboPath(req[s].found, req[s].id) \notin DOMAIN CDN'
             /\ AssetIdRoute(req[s].id)' = 404]_vars

\* C8: the row an upload creates is pending with its file under limbo/ when
\* the uploader is no administrator, approved with its file under asset/
\* when the uploader is one; an upload answers 200 only after creating it.
C8_UploadStatusAndPath ==
    [][/\ \A id \in DOMAIN asset' \ DOMAIN asset :
             LET a == asset'[id] IN
             IF role[a.uploadedBy] = "admin"
             THEN /\ a.status = "approved"
                  /\ assetPath(a, id) \in DOMAIN CDN'
                  /\ limboPath(a, id) \notin DOMAIN CDN'
             ELSE /\ a.status = "pending"
                  /\ limboPath(a, id) \in DOMAIN CDN'
                  /\ assetPath(a, id) \notin DOMAIN CDN'
       /\ \A s \in Slots :
             (req[s].op = "upload" /\ Returns(s) /\ req'[s].code = 200)
             => req[s].pc = "tags"]_vars

C8_Witness ==
    \E s \in Slots :
        /\ req[s].op = "upload" /\ req[s].pc = "respond" /\ req[s].code = 200
        /\ role[req[s].user] = "contributor"
        /\ req[s].id \in DOMAIN asset
        /\ asset[req[s].id].status = "pending"
        /\ limboPath(asset[req[s].id], req[s].id) \in DOMAIN CDN

\* C9: a status changes only from pending, and no step of an approve or a
\* deny called on an approved or denied asset changes the asset's row or
\* its stored files.
C9_ModerationTerminal ==
    [][/\ \A id \in DOMAIN asset :
             asset[id].status # "pending"
             => id \in DOMAIN asset' /\ asset'[id].status = asset[id].status
       /\ \A s \in Slots :
             (/\ req[s].op \in Moderation
              /\ req[s].found.status \in {"approved", "denied"}
              /\ req'[s] # req[s])
             => /\ asset' = asset
                /\ CDN' = CDN]_vars

\* C10: every stored asset's (gameId, categoryId) is in game_to_category and
\* was there before the row was inserted; with the pair unlinked, an upload
\* by a non-administrator answers 400 and writes nothing, one by an
\* administrator goes on to insert the link.
C10_PairLinkedBeforeAsset ==
    [][/\ \A id \in DOMAIN asset' : pairOf(asset'[id]) \in gameToCategory'
       /\ \A id \in DOMAIN asset' \ DOMAIN asset : pairOf(asset'[id]) \in gameToCategory
       /\ \A s \in Slots :
             (/\ At(s, "upload", "link_select")
              /\ req'[s] # req[s]
              /\ pairOf(req[s]) \notin gameToCategory)
             => /\ asset' = asset /\ CDN' = CDN /\ nextAssetId' = nextAssetId
                /\ IF role[req[s].user] = "admin"
                   THEN req'[s].pc = "link_insert"
                   ELSE /\ req'[s].pc = "respond" /\ req'[s].code = 400
                        /\ gameToCategory' = gameToCategory]_vars

C10_Witness ==
    /\ \E s \in Slots :
          /\ req[s].op = "upload" /\ req[s].pc = "respond" /\ req[s].code = 400
          /\ role[req[s].user] = "contributor"
          /\ req[s].categoryId # ""
          /\ <<req[s].gameId, req[s].categoryId>> \notin gameToCategory
          /\ \A id \in DOMAIN asset : pairOf(asset[id]) # <<req[s].gameId, req[s].categoryId>>
    /\ \E id \in DOMAIN asset :
          /\ asset[id].categoryId # "c1"
          /\ role[asset[id].uploadedBy] = "admin"
          /\ pairOf(asset[id]) \in gameToCategory

\* C19: a moderation request (queue, approve, deny) without a session
\* answers 401 and one of a user who is no administrator answers 403, an
\* upload without a session answers 401 and one of role user 403; none of
\* them changes a row, a link or a stored file, and every step of a
\* moderation request that does change one is an administrator's.
C19_AuthBeforeModeration ==
    [][\A s \in Slots :
          /\ (req[s].pc = "idle" /\ req'[s].op \in Moderation \cup {"queue"})
             => /\ req'[s].user = NoSession
                   => /\ req'[s].pc = "respond" /\ req'[s].code = 401
                      /\ UNCHANGED <<asset, CDN>>
                /\ (req'[s].user # NoSession /\ role[req'[s].user] # "admin")
                   => /\ req'[s].pc = "respond" /\ req'[s].code = 403
                      /\ UNCHANGED <<asset, CDN>>
          /\ (req[s].pc = "idle" /\ req'[s].op = "upload")
             => /\ req'[s].user = NoSession
                   => /\ req'[s].pc = "respond" /\ req'[s].code = 401
                      /\ UNCHANGED <<asset, gameToCategory, CDN>>
                /\ (req'[s].user # NoSession /\ role[req'[s].user] = "user")
                   => /\ req'[s].pc = "respond" /\ req'[s].code = 403
                      /\ UNCHANGED <<asset, gameToCategory, CDN>>
          /\ (/\ req[s].op \in Moderation \cup {"queue"}
              /\ req[s].pc # "respond" /\ req'[s] # req[s]
              /\ (asset' # asset \/ CDN' # CDN))
             => req[s].user # NoSession /\ role[req[s].user] = "admin"]_vars

C19_Witness ==
    /\ \E id \in DOMAIN asset : asset[id].status = "pending"
    /\ \E s \in Slots :
          /\ req[s].op = "approveStatusOnly" /\ req[s].pc = "respond"
          /\ req[s].code = 403 /\ role[req[s].user] = "contributor"
          /\ req[s].id \in DOMAIN asset /\ asset[req[s].id].status = "pending"

\* C20: when the notification webhook fails (no 2xx answer, or the request
\* itself fails) at the end of an approve, a deny or an upload, the request
\* still answers 200 and what it wrote stays written.
C20_WebhookFailureHarmless ==
    [][\A s \in Slots :
          (Returns(s) /\ req'[s].webhook \in {"non2xx", "throws"})
          => /\ req'[s].code = 200
             /\ req[s].op = "approveStatusOnly"
                => asset'[req[s].id].status = "approved"
             /\ req[s].op = "denyStatusOnly"
                => asset'[req[s].id].status = "denied"
             /\ req[s].op = "approve"
                => /\ req[s].id \in DOMAIN asset => asset'[req[s].id].status = "approved"
                   /\ limboPath(req[s].found, req[s].id) \notin DOMAIN CDN'
             /\ req[s].op = "deny"
                => /\ req[s].id \notin DOMAIN asset'
                   /\ limboPath(req[s].found, req[s].id) \notin DOMAIN CDN'
             /\ req[s].op = "upload"
                => /\ asset' = asset
                   /\ CDN' = CDN
                   /\ assetToTag \subseteq assetToTag']_vars

C20_Witness ==
    \E s \in Slots :
        /\ req[s].op = "approveStatusOnly" /\ req[s].pc = "respond"
        /\ req[s].webhook = "throws" /\ req[s].code = 200
        /\ asset[req[s].id].status = "approved"

\* ==================================== download history (part_010:62-129)

Range(q) == {q[i] : i \in DOMAIN q}

\* request bodies: a valid batch, one with an unknown asset id, one that
\* names an asset twice, one with only an unknown id
AssetIdInputs == {<<1, 2>>, <<1, 2, 3>>, <<1, 1>>, <<3>>}
HistoryUsers == {"u1"}                    \* u2 owns history but sends no request

AllAssetsFound_AnyFound(assetIds) == Range(assetIds) \cap DOMAIN asset # {}

\* part_010:72-76: select ... where inArray(asset.id, assetIds) returns one
\* row per existing id; assets.length !== assetIds.length rejects the batch
AllAssetsFound(assetIds) == Cardinality(Range(assetIds) \cap DOMAIN asset) = Len(assetIds)

\* statements of the transaction owner see the committed rows with the
\* transaction's own deletes and inserts applied; a statement outside a
\* transaction works on the committed tables and, like every writer, waits
\* while another connection holds the write lock
InTx(s) == tx.owner = s
ViewHistory(s) ==
    IF InTx(s)
    THEN SelectSeq(downloadHistory, LAMBDA h : h.id \notin tx.deletedHistory)
            \o tx.insertedHistory
    ELSE downloadHistory
ViewLinks(s) ==
    IF InTx(s)
    THEN SelectSeq(downloadHistoryToAsset,
                   LAMBDA l : l.downloadHistoryId \notin tx.deletedLinksOf)
            \o tx.insertedLinks
    ELSE downloadHistoryToAsset
OfUser(H, u) == SelectSeq(H, LAMBDA h : h.userId = u)

\* AssetDownloadHistoryPostRoute, part_010:62-76: the session user, the body
\* and the validation of the asset ids
AssetDownloadHistoryPostRoute(s) ==
    /\ Free(s)
    /\ nextHistoryId <= Prefill + MaxNewBatches
    /\ \E u \in HistoryUsers, ids \in AssetIdInputs :
          LET r == [Idle EXCEPT !.op = "history", !.user = u, !.assetIds = ids] IN
          IF ~AllAssetsFound(ids)
          THEN req' = [req EXCEPT ![s] = [r EXCEPT !.pc = "respond", !.code = 400]]
          ELSE req' = [req EXCEPT ![s] = [r EXCEPT !.pc = "begin"]]
    /\ UNCHANGED <<modVars, userVars, search, histVars>>

transaction_NoTransaction(s) ==
    /\ At(s, "history", "begin")
    /\ Goto(s, "count")
    /\ UNCHANGED <<modVars, userVars, search, histVars>>

\* drizzle.transaction(async tx => ...), part_010:79: libsql opens a write
\* transaction, which waits for the database's single write lock
transaction(s) ==
    /\ At(s, "history", "begin")
    /\ tx.owner = 0
    /\ tx' = [NoTx EXCEPT !.owner = s]
    /\ Goto(s, "count")
    /\ UNCHANGED <<modVars, userVars, search, downloadHistory, downloadHistoryToAsset, nextHistoryId,
                   now, recorded>>

\* part_010:80-87
tx_count(s) ==
    /\ At(s, "history", "count")
    /\ LET currentCount == Len(OfUser(ViewHistory(s), req[s].user)) IN
       req' = [req EXCEPT ![s].currentCount = currentCount,
                          ![s].pc = IF currentCount >= HistoryCap THEN "oldest"
                                    ELSE "insert"]
    /\ UNCHANGED <<modVars, userVars, search, histVars>>

toDelete_KeepCap(currentCount) == currentCount - HistoryCap

\* part_010:88
toDelete(currentCount) == currentCount - HistoryKeep

RECURSIVE KSubsets(_, _)
KSubsets(S, k) ==
    IF k = 0 THEN {{}}
    ELSE IF k = 1 THEN {{x} : x \in S}
    ELSE UNION {{T \cup {x} : T \in KSubsets(S \ {x}, k - 1)} : x \in S}

MinCreatedAt(S) == CHOOSE t \in {h.createdAt : h \in S} : \A h \in S : t <= h.createdAt

\* orderBy(asc(downloadHistory.createdAt)).limit(k), part_010:94-95: the
\* possible results; rows of equal createdAt come in no defined order
RECURSIVE OldestFirst(_, _)
OldestFirst(S, k) ==
    IF k <= 0 \/ S = {} THEN {{}}
    ELSE LET T == {h \in S : h.createdAt = MinCreatedAt(S)} IN
         IF Cardinality(T) <= k
         THEN {T \cup R : R \in OldestFirst(S \ T, k - Cardinality(T))}
         ELSE KSubsets(T, k)

\* part_010:90-98
tx_oldestEntries(s) ==
    /\ At(s, "history", "oldest")
    /\ \E oldestEntries \in OldestFirst(Range(OfUser(ViewHistory(s), req[s].user)),
                                        toDelete(req[s].currentCount)) :
          req' = [req EXCEPT ![s].idsToDelete = {e.id : e \in oldestEntries},
                             ![s].currentCount = 0,
                             ![s].pc = IF oldestEntries # {} THEN "deleteLinks"
                                       ELSE "insert"]
    /\ UNCHANGED <<modVars, userVars, search, histVars>>

tx_deleteLinks_Skipped(s) ==
    /\ At(s, "history", "deleteLinks")
    /\ tx.owner \in {0, s}
    /\ Goto(s, "deleteHistory")
    /\ UNCHANGED <<modVars, userVars, search, histVars>>

\* part_010:100-102
tx_deleteLinks(s) ==
    /\ At(s, "history", "deleteLinks")
    /\ tx.owner \in {0, s}
    /\ IF InTx(s)
       THEN /\ tx' = [tx EXCEPT !.deletedLinksOf = @ \cup req[s].idsToDelete]
            /\ UNCHANGED downloadHistoryToAsset
       ELSE /\ downloadHistoryToAsset' =
                  SelectSeq(downloadHistoryToAsset,
                            LAMBDA l : l.downloadHistoryId \notin req[s].idsToDelete)
            /\ UNCHANGED tx
    /\ Goto(s, "deleteHistory")
    /\ UNCHANGED <<modVars, userVars, search, downloadHistory, nextHistoryId, now, recorded>>

\* part_010:104
tx_deleteHistory(s) ==
    /\ At(s, "history", "deleteHistory")
    /\ tx.owner \in {0, s}
    /\ IF InTx(s)
       THEN /\ tx' = [tx EXCEPT !.deletedHistory = @ \cup req[s].idsToDelete]
            /\ UNCHANGED downloadHistory
       ELSE /\ downloadHistory' =
                  SelectSeq(downloadHistory, LAMBDA h : h.id \notin req[s].idsToDelete)
            /\ UNCHANGED tx
    /\ req' = [req EXCEPT ![s].pc = "insert", ![s].idsToDelete = {}]
    /\ UNCHANGED <<modVars, userVars, search, downloadHistoryToAsset, nextHistoryId, now, recorded>>

\* part_010:108-117; id and createdAt come from $defaultFn
\* (downloadHistory.ts:8-16)
tx_insertHistory(s) ==
    /\ At(s, "history", "insert")
    /\ nextHistoryId <= Prefill + MaxNewBatches
    /\ tx.owner \in {0, s}
    /\ LET row == [id |-> nextHistoryId, userId |-> req[s].user, createdAt |-> now] IN
       IF InTx(s)
       THEN /\ tx' = [tx EXCEPT !.insertedHistory = Append(@, row)]
            /\ UNCHANGED downloadHistory
       ELSE /\ downloadHistory' = Append(downloadHistory, row)
            /\ UNCHANGED tx
    /\ nextHistoryId' = nextHistoryId + 1
    /\ req' = [req EXCEPT ![s].pc = "links", ![s].historyId = nextHistoryId,
                          ![s].currentCount = 0]
    /\ UNCHANGED <<modVars, userVars, search, downloadHistoryToAsset, now, recorded>>

\* part_010:119-124; asset_id references asset(id)
tx_insertLinks(s) ==
    /\ At(s, "history", "links")
    /\ Range(req[s].assetIds) \subseteq DOMAIN asset
    /\ tx.owner \in {0, s}
    /\ LET rows == [i \in DOMAIN req[s].assetIds |->
                       [downloadHistoryId |-> req[s].historyId,
                        assetId |-> req[s].assetIds[i]]] IN
       IF InTx(s)
       THEN /\ tx' = [tx EXCEPT !.insertedLinks = @ \o rows]
            /\ UNCHANGED downloadHistoryToAsset
       ELSE /\ downloadHistoryToAsset' = downloadHistoryToAsset \o rows
            /\ UNCHANGED tx
    /\ Goto(s, "commit")
    /\ UNCHANGED <<modVars, userVars, search, downloadHistory, nextHistoryId, now, recorded>>

\* the callback returns: the transaction commits; part_010:125-127
tx_commit(s) ==
    /\ At(s, "history", "commit")
    /\ downloadHistory' = ViewHistory(s)
    /\ downloadHistoryToAsset' = ViewLinks(s)
    /\ tx' = IF InTx(s) THEN NoTx ELSE tx
    /\ recorded' = [recorded EXCEPT ![req[s].user] = @ + 1]
    /\ req' = [req EXCEPT ![s] = [Idle EXCEPT !.op = "history", !.pc = "respond",
                                              !.user = req[s].user,
                                              !.assetIds = req[s].assetIds,
                                              !.historyId = req[s].historyId,
                                              !.code = 200]]
    /\ UNCHANGED <<modVars, userVars, search, nextHistoryId, now>>

TxStages == {"count", "oldest", "deleteLinks", "deleteHistory", "insert", "links", "commit"}

tx_rollback_KeepsWrites(s) ==
    /\ NoResponsePending /\ req[s].op = "history" /\ req[s].pc \in TxStages
    /\ downloadHistory' = ViewHistory(s)
    /\ downloadHistoryToAsset' = ViewLinks(s)
    /\ tx' = IF InTx(s) THEN NoTx ELSE tx
    /\ Done(s, 500)
    /\ UNCHANGED <<modVars, userVars, search, nextHistoryId, now, recorded>>

\* a statement throws, the connection drops or the worker is stopped inside
\* the callback: the transaction rolls back and the request answers 500
tx_rollback(s) ==
    /\ NoResponsePending /\ req[s].op = "history" /\ req[s].pc \in TxStages
    /\ tx' = IF InTx(s) THEN NoTx ELSE tx
    /\ Done(s, 500)
    /\ UNCHANGED <<modVars, userVars, search, downloadHistory, downloadHistoryToAsset, nextHistoryId,
                   now, recorded>>

NowStart == (Prefill + 1) \div 2

\* a second passes; the clock is read once in a transaction, so a second
\* that passes inside one is a second that passes before or after it
Tick ==
    /\ NoResponsePending
    /\ tx.owner = 0
    /\ now < NowStart + MaxClock
    /\ now' = now + 1
    /\ UNCHANGED <<modVars, userVars, search, downloadHistory, downloadHistoryToAsset, tx, nextHistoryId,
                   recorded, req>>

\* two approved assets; u1 has recorded Prefill batches, two a second; u2 one
\* batch, older than all of u1's
InitHistory ==
    /\ asset = [id \in {1, 2} |-> [status |-> "approved", gameId |-> "g1",
                                   categoryId |-> "c1", extension |-> "png",
                                   uploadedBy |-> "u1"]]
    /\ gameToCategory = {<<"g1", "c1">>}
    /\ assetToTag = {}
    /\ CDN = [p \in {<<"asset", 1, "png">>, <<"asset", 2, "png">>} |-> "f1"]
    /\ nextAssetId = 3
    /\ downloadHistory =
          <<[id |-> 0, userId |-> "u2", createdAt |-> 0]>>
          \o [i \in 1..Prefill |-> [id |-> i, userId |-> "u1", createdAt |-> (i + 1) \div 2]]
    /\ downloadHistoryToAsset =
          [i \in 1..(Prefill + 1) |-> [downloadHistoryId |-> i - 1, assetId |-> 1]]
    /\ tx = NoTx
    /\ nextHistoryId = Prefill + 1
    /\ now = NowStart
    /\ recorded = [u \in Users |-> IF u = "u1" THEN Prefill ELSE IF u = "u2" THEN 1 ELSE 0]
    /\ savedAsset = {}
    /\ nextSavedId = 1
    /\ search = NoSearch
    /\ req = [s \in Slots |-> Idle]

NextHistory ==
    \/ \E s \in Slots :
          \/ AssetDownloadHistoryPostRoute(s)
          \/ transaction(s)
          \/ tx_count(s)
          \/ tx_oldestEntries(s)
          \/ tx_deleteLinks(s)
          \/ tx_deleteHistory(s)
          \/ tx_insertHistory(s)
          \/ tx_insertLinks(s)
          \/ tx_commit(s)
          \/ tx_rollback(s)
          \/ Respond(s)
    \/ Tick

SpecHistory == InitHistory /\ [][NextHistory]_vars

\* ---------------------------------------------- download-history properties

BatchesOf(H, u) == Range(OfUser(H, u))
LinksOf(L, id) == {l \in Range(L) : l.downloadHistoryId = id}

\* C1: once a user has recorded 501 or more batches, exactly 500 remain, and
\* every batch evicted was created no later than every batch kept.
C1_CapKeepsNewest ==
    /\ [](\A u \in Users :
             recorded[u] >= HistoryCap + 1
             => Len(OfUser(downloadHistory, u)) = HistoryCap)
    /\ [][downloadHistory' # downloadHistory
          => \A u \in Users :
                \A e \in BatchesOf(downloadHistory, u) \ BatchesOf(downloadHistory', u) :
                   \A r \in BatchesOf(downloadHistory', u) :
                      e.createdAt <= r.createdAt]_vars

C1_Witness ==
    /\ tx.owner = 0
    /\ recorded["u1"] >= HistoryCap + 2
    /\ Len(OfUser(downloadHistory, "u1")) = HistoryCap
    /\ \A i \in DOMAIN downloadHistory : downloadHistory[i].id \notin {1, 2}
    /\ \E i \in DOMAIN downloadHistory : downloadHistory[i].id = 0

\* C2: no committed state holds more than 500 batches of one user, however
\* the requests of that user interleave.
C2_NeverAboveCap ==
    \A u \in Users : Len(OfUser(downloadHistory, u)) <= HistoryCap

C2_Witness ==
    /\ Len(OfUser(downloadHistory, "u1")) = HistoryCap
    /\ \E s, q \in Slots :
          /\ s # q
          /\ req[s].op = "history" /\ req[q].op = "history"
          /\ req[s].user = req[q].user
          /\ InTx(s) /\ req[s].pc = "links"
          /\ req[q].pc = "begin"

\* C3: the committed batches and links change only when a recordBatch
\* commits, and then by the whole update at once: the evicted batches go
\* with all their links, the new batch comes with exactly its links; a
\* recordBatch that fails leaves them as they were.
C3_AllOrNothing ==
    [][/\ (downloadHistory' # downloadHistory
              \/ downloadHistoryToAsset' # downloadHistoryToAsset)
          => \E s \in Slots :
                /\ req[s].op = "history" /\ req[s].pc = "commit"
                /\ req'[s].pc = "respond" /\ req'[s].code = 200
                /\ LET H == Range(downloadHistory)
                       H2 == Range(downloadHistory')
                       L == Range(downloadHistoryToAsset)
                       L2 == Range(downloadHistoryToAsset')
                       id == req[s].historyId IN
                   /\ \E h \in H2 : h.id = id /\ h.userId = req[s].user /\ H2 \ H = {h}
                   /\ LinksOf(downloadHistoryToAsset', id)
                         = {[downloadHistoryId |-> id, assetId |-> a] :
                               a \in Range(req[s].assetIds)}
                   /\ \A l \in L2 \ L : l.downloadHistoryId = id
                   /\ \A g \in H \ H2 :
                         g.userId = req[s].user
                         /\ LinksOf(downloadHistoryToAsset', g.id) = {}
                   /\ \A l \in L \ L2 : \E g \in H \ H2 : l.downloadHistoryId = g.id
       /\ \A s \in Slots :
             (req[s].op = "history" /\ Returns(s) /\ req'[s].code # 200)
             => /\ downloadHistory' = downloadHistory
                /\ downloadHistoryToAsset' = downloadHistoryToAsset]_vars

C3_Witness ==
    \E s \in Slots :
        /\ req[s].op = "history" /\ req[s].pc = "respond" /\ req[s].code = 500
        /\ req[s].historyId # 0
        /\ tx.owner = 0
        /\ \A i \in DOMAIN downloadHistory : downloadHistory[i].id # req[s].historyId
        /\ Len(OfUser(downloadHistory, req[s].user)) = HistoryCap
        /\ \A h \in BatchesOf(downloadHistory, req[s].user) :
              LinksOf(downloadHistoryToAsset, h.id) # {}

\* C4: a recordBatch naming an asset id that no asset has answers 400 and
\* never reaches the transaction: it writes no batch, no link, evicts nothing.
C4_InvalidIdRejected ==
    /\ [](\A s \in Slots :
             (req[s].op = "history" /\ ~(Range(req[s].assetIds) \subseteq DOMAIN asset))
             => req[s].pc = "respond" /\ req[s].code = 400)
    /\ [][\A s \in Slots :
             (/\ req[s].pc = "idle" /\ req'[s].op = "history"
              /\ ~(Range(req'[s].assetIds) \subseteq DOMAIN asset))
             => /\ req'[s].code = 400
                /\ downloadHistory' = downloadHistory
                /\ downloadHistoryToAsset' = downloadHistoryToAsset
                /\ tx' = tx]_vars

C4_Witness ==
    \E s \in Slots :
        /\ req[s].op = "history" /\ req[s].pc = "respond" /\ req[s].code = 400
        /\ req[s].assetIds = <<1, 2, 3>>
        /\ {1, 2} \subseteq DOMAIN asset /\ 3 \notin DOMAIN asset
        /\ Len(downloadHistory) = Prefill + 1
        /\ Len(downloadHistoryToAsset) = Prefill + 1

\* ============================ saved assets (part_007:55-129, part_005:48-96)

SavedUsers == {"u2", "u3"}
SavedAssetInputs == {1, 3}                \* an asset that exists, one that does not

\* where(and(eq(savedAsset.userId, userId), eq(savedAsset.assetId, assetId)))
SavedRows(userId, assetId) ==
    {r \in savedAsset : r.userId = userId /\ r.assetId = assetId}

\* UserSaveAssetRoute, part_007:55-77: requireAuth, the session user and the
\* select of the asset
UserSaveAssetRoute(s) ==
    /\ Free(s)
    /\ nextSavedId <= MaxSaves
    /\ \E u \in SavedUsers \cup {NoSession}, id \in SavedAssetInputs :
          LET r == [Idle EXCEPT !.op = "save", !.user = u, !.id = id] IN
          IF u = NoSession
          THEN req' = [req EXCEPT ![s] = [r EXCEPT !.pc = "respond", !.code = 401]]
          ELSE IF id \notin DOMAIN asset
          THEN req' = [req EXCEPT ![s] = [r EXCEPT !.pc = "respond", !.code = 404]]
          ELSE req' = [req EXCEPT ![s] = [r EXCEPT !.pc = "existingSave"]]
    /\ UNCHANGED <<modVars, histVars, userVars, search>>

UserSaveAssetRoute_existingSave_NoCheck(s) ==
    /\ At(s, "save", "existingSave")
    /\ Goto(s, "insert")
    /\ UNCHANGED <<modVars, histVars, userVars, search>>

\* part_007:79-93
UserSaveAssetRoute_existingSave(s) ==
    /\ At(s, "save", "existingSave")
    /\ IF SavedRows(req[s].user, req[s].id) # {} THEN Done(s, 400) ELSE Goto(s, "insert")
    /\ UNCHANGED <<modVars, histVars, userVars, search>>

\* part_007:95-117; saved_asset has a primary key on id and plain indexes on
\* user_id and asset_id (assetToTag.ts:32-49), so the insert fails only when
\* the statement itself does (part_007:118-127) or when asset_id references
\* no asset (0000_workable_talos.sql:57)
UserSaveAssetRoute_insert(s) ==
    /\ At(s, "save", "insert")
    /\ nextSavedId <= MaxSaves
    /\ \E inserted \in (IF req[s].id \in DOMAIN asset THEN BOOLEAN ELSE {FALSE}) :
          IF inserted
          THEN /\ savedAsset' = savedAsset \cup {[id |-> nextSavedId, userId |-> req[s].user,
                                                  assetId |-> req[s].id,
                                                  createdAt |-> now]}
               /\ nextSavedId' = nextSavedId + 1
               /\ Done(s, 201)
          ELSE /\ UNCHANGED <<savedAsset, nextSavedId>>
               /\ Done(s, 500)
    /\ UNCHANGED <<modVars, histVars, search>>

\* UserUnsaveAssetRoute, part_005:48-73: requireAuth and the select of the row
UserUnsaveAssetRoute(s) ==
    /\ Free(s)
    /\ \E u \in SavedUsers \cup {NoSession}, id \in SavedAssetInputs :
          LET r == [Idle EXCEPT !.op = "unsave", !.user = u, !.id = id] IN
          IF u = NoSession
          THEN req' = [req EXCEPT ![s] = [r EXCEPT !.pc = "respond", !.code = 401]]
          ELSE IF SavedRows(u, id) = {}
          THEN req' = [req EXCEPT ![s] = [r EXCEPT !.pc = "respond", !.code = 404]]
          ELSE req' = [req EXCEPT ![s] = [r EXCEPT !.pc = "delete"]]
    /\ UNCHANGED <<modVars, histVars, userVars, search>>

\* part_005:75-85
UserUnsaveAssetRoute_delete(s) ==
    /\ At(s, "unsave", "delete")
    /\ \E deleted \in BOOLEAN :
          IF deleted
          THEN /\ savedAsset' = savedAsset \ SavedRows(req[s].user, req[s].id)
               /\ Done(s, 200)
          ELSE /\ UNCHANGED savedAsset
               /\ Done(s, 500)
    /\ UNCHANGED <<modVars, histVars, nextSavedId, search>>

\* the catalog of InitHistory with the history tables as they are
InitSaved == InitHistory

NextSaved ==
    \E s \in Slots :
        \/ UserSaveAssetRoute(s)
        \/ UserSaveAssetRoute_existingSave(s)
        \/ UserSaveAssetRoute_insert(s)
        \/ UserUnsaveAssetRoute(s)
        \/ UserUnsaveAssetRoute_delete(s)
        \/ Respond(s)

\* requests of all users interleave freely
SpecSaved == InitSaved /\ [][NextSaved]_vars

\* every user sends its next request after the response to its last one
OnePerUser ==
    \A s, q \in Slots :
        (s # q /\ req[s].pc # "idle" /\ req[q].pc # "idle") => req[s].user # req[q].user

NextSavedSequential == NextSaved /\ OnePerUser'

SpecSavedSequential == InitSaved /\ [][NextSavedSequential]_vars

\* ------------------------------------------------ saved-asset properties

\* C11: with the requests of each user sequential, a save of an asset the
\* user has saved answers 400 and leaves exactly one row of the pair; an
\* unsave of an asset the user has not saved answers 404 and changes no row.
C11_SaveUnsaveIdempotent ==
    [][\A s \in Slots :
          /\ (/\ req[s].op = "save" /\ Returns(s)
              /\ SavedRows(req[s].user, req[s].id) # {})
             => /\ req'[s].code = 400
                /\ savedAsset' = savedAsset
                /\ Cardinality(SavedRows(req[s].user, req[s].id)) = 1
          /\ (/\ req[s].pc = "idle" /\ req'[s].op = "unsave"
              /\ req'[s].user # NoSession
              /\ SavedRows(req'[s].user, req'[s].id) = {})
             => /\ req'[s].pc = "respond" /\ req'[s].code = 404
                /\ savedAsset' = savedAsset]_vars

C11_Witness ==
    \E s \in Slots :
        /\ req[s].op = "save" /\ req[s].pc = "respond" /\ req[s].code = 400
        /\ Cardinality(SavedRows(req[s].user, req[s].id)) = 1
        /\ \E q \in Slots : req[q].op = "unsave" /\ req[q].pc = "delete"

\* C12: no state holds two saved_asset rows of the same user and asset,
\* also when two saves of the same user and asset run concurrently.
C12_OneRowPerPair ==
    \A r1, r2 \in savedAsset :
        (r1.userId = r2.userId /\ r1.assetId = r2.assetId) => r1 = r2


\* =========================== lists and search (search.ts, saved-assets-list.ts)

\* ---------------------------------------------------- numbers of a query

\* a query parameter is a string: a sequence of characters
Digits == <<"0", "1", "2", "3", "4", "5", "6", "7", "8", "9">>
DigitValue(c) == (CHOOSE i \in DOMAIN Digits : Digits[i] = c) - 1
IsDigit(c) == \E i \in DOMAIN Digits : Digits[i] = c

\* what parseInt and the arithmetic on its result give for no number
NaN == 0 - 1000000

RECURSIVE LeadingDigits(_)
LeadingDigits(str) ==
    IF str = <<>> \/ ~IsDigit(Head(str)) THEN <<>>
    ELSE <<Head(str)>> \o LeadingDigits(Tail(str))

RECURSIVE DecimalValue(_)
DecimalValue(digits) ==
    IF digits = <<>> THEN 0
    ELSE 10 * DecimalValue(SubSeq(digits, 1, Len(digits) - 1))
            + DigitValue(digits[Len(digits)])

\* parseInt(str, 10): an optional sign, then the leading decimal digits
parseInt(str) ==
    LET signed == str # <<>> /\ Head(str) \in {"-", "+"}
        body == IF signed THEN Tail(str) ELSE str
        digits == LeadingDigits(body) IN
    IF digits = <<>> THEN NaN
    ELSE IF signed /\ Head(str) = "-" THEN 0 - DecimalValue(digits)
    ELSE DecimalValue(digits)

\* String(n) for n >= 0, as a client writes the next offset
RECURSIVE ToDecimal(_)
ToDecimal(n) ==
    IF n < 10 THEN <<Digits[n + 1]>>
    ELSE ToDecimal(n \div 10) \o <<Digits[(n % 10) + 1]>>

\* a < b, Math.min, Math.max and (a - 1) * b of JavaScript numbers
JsLess(a, b) == a # NaN /\ b # NaN /\ a < b
MathMin(a, b) == IF a = NaN \/ b = NaN THEN NaN ELSE IF a < b THEN a ELSE b
MathMax(a, b) == IF a = NaN \/ b = NaN THEN NaN ELSE IF a > b THEN a ELSE b
PageOffset(page, limit) ==
    IF page = NaN \/ limit = NaN THEN NaN ELSE (page - 1) * limit

\* --------------------------------------------------------- rows in order

RangeOf(seq) == {seq[i] : i \in DOMAIN seq}

\* ORDER BY key ASC | DESC over the rows S: rows with equal keys come in
\* whatever order the query plan yields, so every order of them is possible
Permutations_(G) ==
    {p \in [1..Cardinality(G) -> G] : \A i, j \in DOMAIN p : p[i] = p[j] => i = j}

RECURSIVE Orderings(_, _, _)
Orderings(S, key, sortOrder) ==
    IF S = {} THEN {<<>>}
    ELSE LET keys == {key[x] : x \in S}
             first == IF sortOrder = "asc"
                      THEN CHOOSE a \in keys : \A b \in keys : a <= b
                      ELSE CHOOSE a \in keys : \A b \in keys : a >= b
             tied == {x \in S : key[x] = first} IN
         {p \o rest : p \in Permutations_(tied),
                      rest \in Orderings(S \ tied, key, sortOrder)}

\* LIMIT limit OFFSET offset of SQLite: a negative limit is no limit, a
\* negative offset is 0
LimitOffset(rows, limit, offset) ==
    LET skip == IF offset < 0 THEN 0 ELSE offset
        last == IF limit < 0 \/ skip + limit > Len(rows) THEN Len(rows)
                ELSE skip + limit IN
    IF skip >= last THEN <<>> ELSE SubSeq(rows, skip + 1, last)

\* the client refuses a parameter that is not a finite number, before the
\* statement is sent: the handler's catch answers 500
IsBindable(n) == n # NaN

\* split(',') has been applied; filter(Boolean) drops the empty pieces
RECURSIVE filterBoolean(_)
filterBoolean(pieces) ==
    IF pieces = <<>> THEN <<>>
    ELSE IF Head(pieces) = "" THEN filterBoolean(Tail(pieces))
    ELSE <<Head(pieces)>> \o filterBoolean(Tail(pieces))

\* ------------------------------------------------------ the catalog

\* table tag (schema/asset/tag.ts:6-8): slug is unique
tag == {[id |-> "t1", slug |-> "official"], [id |-> "t2", slug |-> "fanmade"]}

\* tagSlugMap[slug], search.ts:215: the id, or nothing for an unknown slug
tagSlugMap(slug) == {t.id : t \in {r \in tag : r.slug = slug}}

\* the sort columns of asset (schema/asset/asset.ts:16-28)
SortColumns == {"name", "createdAt", "downloadCount", "viewCount"}

\* rows 20/21 and 30/31 share their counters and their second of creation;
\* names are distinct
TiedKey(i) == IF i \in {21, 31} THEN i - 1 ELSE i

\* a catalog of CatalogSize assets: the last two are pending and denied, the
\* second is suggestive; every asset but the fifth carries t1, the first 25
\* carry t2; u2 has saved the approved ones and has CatalogSize history rows
InitSearch ==
    /\ asset = [id \in 1..CatalogSize |->
                   [status |-> IF id = CatalogSize THEN "denied"
                               ELSE IF id = CatalogSize - 1 THEN "pending"
                               ELSE "approved",
                    gameId |-> "g1", categoryId |-> "c1", extension |-> "png",
                    uploadedBy |-> "u2", isSuggestive |-> (id = 2), name |-> id,
                    createdAt |-> TiedKey(id), downloadCount |-> TiedKey(id),
                    viewCount |-> TiedKey(id)]]
    /\ gameToCategory = {<<"g1", "c1">>}
    /\ assetToTag = {<<id, "t1">> : id \in (1..CatalogSize) \ {5}}
                    \cup {<<id, "t2">> : id \in 1..25}
    /\ CDN = [p \in {<<"asset", id, "png">> : id \in 1..CatalogSize} |-> "f1"]
    /\ nextAssetId = CatalogSize + 1
    /\ downloadHistory = [i \in 1..CatalogSize |->
                             [id |-> i, userId |-> "u2", createdAt |-> TiedKey(i)]]
    /\ downloadHistoryToAsset =
          [i \in 1..CatalogSize |-> [downloadHistoryId |-> i, assetId |-> i]]
    /\ tx = NoTx
    /\ nextHistoryId = CatalogSize + 1
    /\ now = NowStart
    /\ recorded = [u \in Users |-> IF u = "u2" THEN CatalogSize ELSE 0]
    /\ savedAsset = {[id |-> i, userId |-> "u2", assetId |-> i,
                      createdAt |-> TiedKey(i)] : i \in 1..(CatalogSize - 2)}
    /\ nextSavedId = CatalogSize + 1
    /\ search = NoSearch
    /\ req = [s \in Slots |-> Idle]

\* ------------------------------ GET /asset/search (search.ts:157-369)

PageSize == 20          \* search.ts:283   hasNext = assets.length > 20

\* tagSlugs.map(slug => tagSlugMap[slug]).filter(id => id !== undefined),
\* search.ts:241
RECURSIVE tagIdsOf(_)
tagIdsOf(tagSlugs) ==
    IF tagSlugs = <<>> THEN <<>>
    ELSE IF tagSlugMap(Head(tagSlugs)) = {} THEN tagIdsOf(Tail(tagSlugs))
    ELSE <<CHOOSE id \in tagSlugMap(Head(tagSlugs)) : TRUE>> \o tagIdsOf(Tail(tagSlugs))

having_AnyTag(count, n) == count >= 1

\* HAVING COUNT(DISTINCT tag_id) = n, search.ts:250
having(count, n) == count = n

\* SELECT asset_id FROM asset_to_tag WHERE tag_id IN tagIds GROUP BY asset_id
\* HAVING COUNT(DISTINCT tag_id) = n (search.ts:244-250)
tagSubquery(tagIds, n) ==
    {id \in DOMAIN asset :
        LET count == Cardinality({t \in tagIds : <<id, t>> \in assetToTag}) IN
        count >= 1 /\ having(count, n)}

\* the rows of the WHERE clause, search.ts:240-252 and 278: the tag condition
\* is pushed only when a slug resolved; status = 'approved' always
AssetSearch_where(q) ==
    LET tagSlugs == filterBoolean(q.tags)
        tagIds == tagIdsOf(tagSlugs)
        approved == {id \in DOMAIN asset : asset[id].status = "approved"} IN
    IF Len(tagSlugs) > 0 /\ Len(tagIds) > 0
    THEN approved \cap tagSubquery(RangeOf(tagIds), Len(tagIds))
    ELSE approved

\* sortColumn, search.ts:254-259
sortColumn == [viewCount |-> "viewCount", downloadCount |-> "downloadCount",
               uploadDate |-> "createdAt", name |-> "name"]

\* the responses the handler can give to query q, search.ts:171-284: the 400
\* for a negative offset, else 21 rows from the offset in the order asked for
AssetSearch(q) ==
    LET offset == IF q.offset # <<>> THEN parseInt(q.offset) ELSE 0
        sortBy == IF q.sortBy # "" THEN q.sortBy ELSE "uploadDate"
        sortOrder == IF q.sortOrder # "" THEN q.sortOrder ELSE "desc"
        matching == AssetSearch_where(q)
        key == [id \in matching |-> asset[id][sortColumn[sortBy]]]
        r == [NoSearch EXCEPT !.route = "search", !.query = q] IN
    IF JsLess(offset, 0) THEN {[r EXCEPT !.code = 400]}
    ELSE IF ~IsBindable(offset) THEN {[r EXCEPT !.code = 500]}
    ELSE {LET assets == LimitOffset(rows, PageSize + 1, offset)
              hasNext == Len(assets) > PageSize IN
          [r EXCEPT !.code = 200, !.hasNext = hasNext,
                    !.ids = IF hasNext THEN SubSeq(assets, 1, PageSize) ELSE assets]
          : rows \in Orderings(matching, key, sortOrder)}

\* --------------------- GET /asset/search, paged (search.ts:512-678)

MaxLimit == 50          \* search.ts:519   Math.min(parseInt(query.limit), 50)
DefaultLimit == 20      \* search.ts:519   query.limit ? ... : 20

\* Math.ceil(total / limit) for total >= 0; a division by 0 gives Infinity
\* (more pages than any page number) or, for 0 / 0, NaN
Infinity == 1000000
MathCeilDiv(total, limit) ==
    IF limit = 0 THEN (IF total = 0 THEN NaN ELSE Infinity)
    ELSE IF limit > 0 THEN (total + limit - 1) \div limit
    ELSE 0 - (total \div (0 - limit))

\* the subquery of search.ts:566-574: asset_to_tag joined with tag, WHERE
\* slug IN tagSlugs, HAVING COUNT(DISTINCT slug) = tagSlugs.length
tagSubquery_bySlug(tagSlugs) ==
    {id \in DOMAIN asset :
        LET count == Cardinality({t \in tag : /\ t.slug \in RangeOf(tagSlugs)
                                              /\ <<id, t.id>> \in assetToTag}) IN
        count >= 1 /\ having(count, Len(tagSlugs))}

\* the rows of search.ts:578-597: asset joined with its game and category,
\* the tag condition when slugs were given, and no condition on status
AssetSearch_paged_where(q) ==
    LET tagSlugs == filterBoolean(q.tags) IN
    IF Len(tagSlugs) > 0 THEN tagSubquery_bySlug(tagSlugs) ELSE DOMAIN asset

\* the responses to query q, search.ts:518-530 and 609-612; the statement has
\* no ORDER BY, the rows come in the order of the plan: by primary key,
\* forwards or backwards
AssetSearch_paged(q) ==
    LET page == IF q.page # <<>> THEN parseInt(q.page) ELSE 1
        limit == IF q.limit # <<>> THEN MathMin(parseInt(q.limit), MaxLimit)
                 ELSE DefaultLimit
        offset == PageOffset(page, limit)
        matching == AssetSearch_paged_where(q)
        key == [id \in matching |-> id]
        r == [NoSearch EXCEPT !.route = "paged", !.query = q, !.limit = limit] IN
    IF JsLess(page, 1) THEN {[r EXCEPT !.code = 400]}
    ELSE IF ~IsBindable(limit) \/ ~IsBindable(offset) THEN {[r EXCEPT !.code = 500]}
    ELSE {LET total == Cardinality(matching)
              totalPages == MathCeilDiv(total, limit) IN
          [r EXCEPT !.code = 200, !.ids = LimitOffset(rows, limit, offset),
                    !.hasNext = JsLess(page, totalPages)]
          : rows \in Orderings(matching, key, "asc") \cup Orderings(matching, key, "desc")}

\* ------------- GET /user/saved-assets (saved-assets-list.ts:10-333)

\* querySchema.offset, saved-assets-list.ts:11-15
savedOffset(str) == MathMax(0, parseInt(IF str = <<>> THEN <<"0">> ELSE str))

\* saved-assets-list.ts:160-195: the ids of the tags whose slug was asked
\* for, then the assets carrying all of those; no condition when no slug
\* names a tag
savedTagFilter(q) ==
    LET tagSlugs == filterBoolean(q.tags)
        tagIdList == {t.id : t \in {r \in tag : r.slug \in RangeOf(tagSlugs)}} IN
    IF Len(tagSlugs) > 0 /\ tagIdList # {}
    THEN tagSubquery(tagIdList, Cardinality(tagIdList))
    ELSE DOMAIN asset

\* orderByClause, saved-assets-list.ts:198-216
savedSortKey(row, sortBy) ==
    CASE sortBy = "viewCount"     -> asset[row.assetId].viewCount
      [] sortBy = "downloadCount" -> asset[row.assetId].downloadCount
      [] sortBy = "uploadDate"    -> asset[row.assetId].createdAt
      [] sortBy = "name"          -> asset[row.assetId].name
      [] OTHER                    -> row.createdAt

\* asset joined with saved_asset, WHERE user_id is the session user's and
\* the tag condition (saved-assets-list.ts:127, 194, 233-235)
UserSavedAssetsList_where(q) ==
    {row \in savedAsset : /\ row.userId = q.caller
                          /\ row.assetId \in DOMAIN asset
                          /\ row.assetId \in savedTagFilter(q)}

\* the responses to query q of the session user, saved-assets-list.ts:85-241
UserSavedAssetsList(q) ==
    LET offset == savedOffset(q.offset)
        sortBy == IF q.sortBy # "" THEN q.sortBy ELSE "savedAt"
        sortOrder == IF q.sortOrder # "" THEN q.sortOrder ELSE "desc"
        matching == UserSavedAssetsList_where(q)
        key == [row \in matching |-> savedSortKey(row, sortBy)]
        r == [NoSearch EXCEPT !.route = "saved", !.query = q] IN
    IF requireAuth(q.caller) # 0 THEN {[r EXCEPT !.code = 401]}
    ELSE IF ~IsBindable(offset) THEN {[r EXCEPT !.code = 500]}
    ELSE {LET savedAssets == LimitOffset(rows, PageSize + 1, offset)
              hasNext == Len(savedAssets) > PageSize
              finalAssets == IF hasNext THEN SubSeq(savedAssets, 1, PageSize)
                             ELSE savedAssets IN
          [r EXCEPT !.code = 200, !.hasNext = hasNext,
                    !.ids = [i \in DOMAIN finalAssets |-> finalAssets[i].assetId]]
          : rows \in Orderings(matching, key, sortOrder)}

\* -------- GET /user/download-history (saved-assets-list.ts:437-767)

\* querySchema.page and querySchema.limit, saved-assets-list.ts:438-447
historyPage(str) == parseInt(IF str = <<>> THEN <<"1">> ELSE str)
historyLimit(str) ==
    MathMin(MaxLimit, MathMax(1, parseInt(IF str = <<>> THEN <<"2", "0">> ELSE str)))

historyOrder_Ascending == "asc"

\* orderBy(desc(downloadHistory.createdAt)), part_010:144 and
\* saved-assets-list.ts:580
historyOrder == "desc"

\* the responses to query q of the session user, saved-assets-list.ts:521-600;
\* ids are the ids of the batches
UserDownloadHistory(q) ==
    LET page == historyPage(q.page)
        limit == historyLimit(q.limit)
        offset == PageOffset(page, limit)
        matching == {i \in DOMAIN downloadHistory : downloadHistory[i].userId = q.caller}
        key == [i \in matching |-> downloadHistory[i].createdAt]
        r == [NoSearch EXCEPT !.route = "history", !.query = q, !.limit = limit] IN
    IF requireAuth(q.caller) # 0 THEN {[r EXCEPT !.code = 401]}
    ELSE IF ~IsBindable(limit) \/ ~IsBindable(offset) THEN {[r EXCEPT !.code = 500]}
    ELSE {LET historyBatches == LimitOffset(rows, limit, offset)
              totalPages == MathCeilDiv(Cardinality(matching), limit) IN
          [r EXCEPT !.code = 200, !.hasNext = JsLess(page, totalPages),
                    !.ids = [i \in DOMAIN historyBatches |->
                                downloadHistory[historyBatches[i]].id]]
          : rows \in Orderings(matching, key, historyOrder)}

\* the responses of GET /history to the session user u, part_010:131-165:
\* every batch of the user, by created_at descending
AssetDownloadHistoryGet(u) ==
    LET matching == {i \in DOMAIN downloadHistory : downloadHistory[i].userId = u}
        key == [i \in matching |-> downloadHistory[i].createdAt]
        r == [NoSearch EXCEPT !.route = "historyGet", !.query.caller = u] IN
    IF requireAuth(u) # 0 THEN {[r EXCEPT !.code = 401]}
    ELSE {[r EXCEPT !.code = 200,
                    !.ids = [i \in DOMAIN rows |-> downloadHistory[rows[i]].id]]
          : rows \in Orderings(matching, key, historyOrder)}

\* --------------------------------------------- list and search requests

\* who asks: an admin and a plain user from a region where suggestive
\* content is restricted, and a plain user from elsewhere
Callers == {[caller |-> "u1", restricted |-> TRUE],
            [caller |-> "u3", restricted |-> TRUE],
            [caller |-> "u3", restricted |-> FALSE]}

\* tags=..., split at the commas: known slugs, an unknown one, a repeated
\* one, an empty piece
TagsInputs == {<<>>, <<"official">>, <<"official", "fanmade">>, <<"fanmade", "nope">>,
               <<"nope">>, <<"fanmade", "", "fanmade">>}
OffsetInputs == {<<>>, <<"0">>, <<"-", "1">>, <<"a", "b", "c">>}
PageInputs == {<<>>, <<"1">>, <<"3">>, <<"0">>, <<"-", "1">>, <<"x">>}
LimitInputs == {<<>>, <<"0">>, <<"-", "1">>, <<"1", "0">>, <<"1", "0", "0">>,
                <<"a", "b", "c">>}
SortByInputs == {"", "viewCount", "downloadCount", "uploadDate", "name"}
SortOrderInputs == {"", "asc", "desc"}

\* a request is answered in one piece: the tables do not change under it
CanAsk == NoResponsePending /\ search = NoSearch /\ \A s \in Slots : req[s].pc = "idle"

AssetSearchRoute ==
    /\ CanAsk
    /\ \E c \in Callers, t \in TagsInputs, o \in OffsetInputs,
          sb \in SortByInputs, so \in SortOrderInputs :
          search' \in AssetSearch([NoQuery EXCEPT !.caller = c.caller,
                                                  !.restricted = c.restricted,
                                                  !.tags = t, !.offset = o,
                                                  !.sortBy = sb, !.sortOrder = so])
    /\ UNCHANGED <<modVars, histVars, userVars, req>>

AssetSearchRoute_paged ==
    /\ CanAsk
    /\ \E c \in Callers, t \in TagsInputs, pg \in PageInputs, l \in LimitInputs :
          search' \in AssetSearch_paged([NoQuery EXCEPT !.caller = c.caller,
                                                        !.restricted = c.restricted,
                                                        !.tags = t, !.page = pg,
                                                        !.limit = l])
    /\ UNCHANGED <<modVars, histVars, userVars, req>>

UserSavedAssetsListRoute ==
    /\ CanAsk
    /\ \E u \in {"u2", "u3", NoSession}, t \in TagsInputs, o \in OffsetInputs,
          sb \in SortByInputs \cup {"savedAt"}, so \in SortOrderInputs :
          search' \in UserSavedAssetsList([NoQuery EXCEPT !.caller = u, !.tags = t,
                                                          !.offset = o, !.sortBy = sb,
                                                          !.sortOrder = so])
    /\ UNCHANGED <<modVars, histVars, userVars, req>>

UserDownloadHistoryRoute ==
    /\ CanAsk
    /\ \E u \in {"u2", "u3", NoSession}, pg \in PageInputs, l \in LimitInputs :
          search' \in UserDownloadHistory([NoQuery EXCEPT !.caller = u, !.page = pg,
                                                          !.limit = l])
    /\ UNCHANGED <<modVars, histVars, userVars, req>>

\* the offset the page was read at
OffsetOf(r) ==
    IF r.route = "saved" THEN savedOffset(r.query.offset)
    ELSE IF r.query.offset # <<>> THEN parseInt(r.query.offset) ELSE 0

\* the client follows hasNext: the same query, PageSize rows further on
NextPage ==
    /\ NoResponsePending
    /\ search.route \in {"search", "saved"} /\ search.code = 200 /\ search.hasNext
    /\ LET q == [search.query EXCEPT !.offset = ToDecimal(OffsetOf(search) + PageSize)] IN
       search' \in IF search.route = "search" THEN AssetSearch(q)
                   ELSE UserSavedAssetsList(q)
    /\ UNCHANGED <<modVars, histVars, userVars, req>>

\* the response has been read
Forget ==
    /\ search # NoSearch
    /\ search' = NoSearch
    /\ UNCHANGED <<modVars, histVars, userVars, req>>

NextSearch ==
    \/ AssetSearchRoute
    \/ AssetSearchRoute_paged
    \/ UserSavedAssetsListRoute
    \/ UserDownloadHistoryRoute
    \/ NextPage
    \/ Forget
    \/ \E s \in Slots : search = NoSearch /\ AssetApprovalQueueRoute(s)
    \/ \E s \in Slots : Respond(s)

SpecSearch == InitSearch /\ [][NextSearch]_vars

\* ------------------------------------------------ properties of the lists

\* the tags a query asks for by slug, and those of them that exist
RequestedSlugs(q) == RangeOf(filterBoolean(q.tags))
ResolvedTags(q) == {t.id : t \in {r \in tag : r.slug \in RequestedSlugs(q)}}
IsAssetList(r) == r.route \in {"search", "paged", "saved"} /\ r.code = 200

\* C13 as stated: when a search carries a tag filter, every asset of the
\* response is linked to a tag of every requested slug
C13_AllRequestedTags ==
    (IsAssetList(search) /\ RequestedSlugs(search.query) # {}) =>
        \A i \in DOMAIN search.ids : \A slug \in RequestedSlugs(search.query) :
            \E t \in tag : t.slug = slug /\ <<search.ids[i], t.id>> \in assetToTag

\* C13: when a search carries a tag filter and T is the set of the k >= 1
\* existing tags its slugs name, every asset of the response is linked to all
\* k tags of T
C13_AllResolvedTags ==
    (IsAssetList(search) /\ ResolvedTags(search.query) # {}) =>
        \A i \in DOMAIN search.ids : \A t \in ResolvedTags(search.query) :
            <<search.ids[i], t>> \in assetToTag

\* a search for two tags has answered with assets while an approved asset
\* carrying one of the two is not in the answer
C13_Witness ==
    /\ search.route = "search" /\ search.code = 200 /\ search.ids # <<>>
    /\ Cardinality(ResolvedTags(search.query)) = 2
    /\ \E id \in DOMAIN asset :
          /\ asset[id].status = "approved"
          /\ id \notin RangeOf(search.ids)
          /\ \E t \in ResolvedTags(search.query) : <<id, t>> \in assetToTag
          /\ \E t \in ResolvedTags(search.query) : <<id, t>> \notin assetToTag

\* C14: the public search returns only approved assets, and the approval
\* queue only pending ones
C14_OnlyApprovedOnlyPending ==
    /\ (search.route \in {"search", "paged"} /\ search.code = 200) =>
          \A i \in DOMAIN search.ids : asset[search.ids[i]].status = "approved"
    /\ \A s \in Slots :
          (req[s].op = "queue" /\ req[s].pc = "respond" /\ req[s].code = 200) =>
              \A id \in req[s].assets : asset[id].status = "pending"

\* the rows the offset-paginated query of response r matches
MatchingCount(r) ==
    IF r.route = "search" THEN Cardinality(AssetSearch_where(r.query))
    ELSE Cardinality(UserSavedAssetsList_where(r.query))
IsOffsetPage(r) == r.route \in {"search", "saved"} /\ r.code = 200

C15_HasNextExact ==
    IsOffsetPage(search) =>
        (search.hasNext <=> MatchingCount(search) > OffsetOf(search) + PageSize)

C15_NextPageDisjoint ==
    (/\ IsOffsetPage(search) /\ IsOffsetPage(search')
     /\ search'.route = search.route
     /\ search'.query = [search.query EXCEPT
                            !.offset = ToDecimal(OffsetOf(search) + PageSize)])
    => RangeOf(search.ids) \cap RangeOf(search'.ids) = {}

\* C15: with no writes, hasNext of an offset-paginated page is true exactly
\* when a 21st matching row exists at its offset, and the page at offset + 20
\* shares no asset id with the page at offset, for every sort key and direction
C15_PagesPartition == [][C15_HasNextExact' /\ C15_NextPageDisjoint]_vars

IsNegative(str) == str # <<>> /\ JsLess(parseInt(str), 0)

\* C16: a page or an offset below zero is answered 400 with no rows, on every
\* paginated endpoint (once the session, where one is required, is there)
C16_NegativeRejected ==
    (/\ search.code \notin {0, 401}
     /\ IsNegative(search.query.offset) \/ IsNegative(search.query.page))
    => search.code = 400 /\ search.ids = <<>>

\* C17: whatever the limit parameter is, a page-paginated response carries at
\* most 50 items and its page size is an integer from 1 to 50
C17_LimitWithinCap ==
    (search.route \in {"paged", "history"} /\ search.code = 200) =>
        Len(search.ids) <= MaxLimit /\ search.limit \in 1..MaxLimit

\* C18: a caller from a restricted region who is not an administrator gets no
\* suggestive asset in a search response
C18_NoSuggestiveWhenRestricted ==
    (/\ search.route \in {"search", "paged"} /\ search.code = 200
     /\ search.query.restricted /\ role[search.query.caller] # "admin")
    => \A i \in DOMAIN search.ids : ~asset[search.ids[i]].isSuggestive

\* C21: a tags filter that names at least one slug, none of which is the slug
\* of a tag, gives an empty list and not the unfiltered one
C21_UnresolvedFilterEmpty ==
    (/\ IsAssetList(search)
     /\ RequestedSlugs(search.query) # {} /\ ResolvedTags(search.query) = {})
    => search.ids = <<>>

\* ================================ all the writers of the tables together

\* a pending asset 2 with its quarantine file and a tag; no saves, no history
\* yet; the ids of history batches go on from Prefill
InitIntegrity ==
    /\ asset = [id \in {2} |-> [status |-> "pending", gameId |-> "g1",
                                categoryId |-> "c1", extension |-> "png",
                                uploadedBy |-> "u2"]]
    /\ gameToCategory = {<<"g1", "c1">>}
    /\ assetToTag = {<<2, "t1">>}
    /\ CDN = [p \in {<<"limbo", 2, "png">>} |-> "f1"]
    /\ nextAssetId = 1
    /\ downloadHistory = <<>>
    /\ downloadHistoryToAsset = <<>>
    /\ tx = NoTx
    /\ nextHistoryId = Prefill + 1
    /\ now = NowStart
    /\ recorded = [u \in Users |-> 0]
    /\ savedAsset = {}
    /\ nextSavedId = 1
    /\ search = NoSearch
    /\ req = [s \in Slots |-> Idle]

\* one request is handled at a time
OneAtATime == Cardinality({s \in Slots : req[s].pc # "idle"}) <= 1

\* the requests of this specification: one upload, of file f1 into category
\* c1, saves and unsaves by u2, two saved rows and one recorded batch at most
IntegrityScope ==
    /\ OneAtATime
    /\ nextAssetId <= 2
    /\ \A s \in Slots :
          /\ req[s].op = "upload" =>
                req[s].file \in {"f1", NoFile} /\ req[s].categoryId \in {"c1", ""}
          /\ req[s].op \in {"save", "unsave"} => req[s].user \in {"u2", NoSession}
    /\ nextSavedId <= 3
    /\ nextHistoryId <= Prefill + 2

\* upload, approve and deny (upload.ts, part_009), save and unsave (part_007,
\* part_005) and recordBatch (part_010), one after the other
NextIntegrity ==
    /\ \E s \in Slots :
          \/ Upload(s)
          \/ AssetApproveRoute(s)
          \/ AssetApproveRoute_update(s)
          \/ AssetApproveRoute_get(s)
          \/ AssetApproveRoute_put(s)
          \/ AssetApproveRoute_delete(s)
          \/ AssetDenyRoute(s)
          \/ AssetDenyRoute_deleteRow(s)
          \/ AssetDenyRoute_deleteFile(s)
          \/ UserSaveAssetRoute(s)
          \/ UserSaveAssetRoute_existingSave(s)
          \/ UserSaveAssetRoute_insert(s)
          \/ UserUnsaveAssetRoute(s)
          \/ UserUnsaveAssetRoute_delete(s)
          \/ AssetDownloadHistoryPostRoute(s)
          \/ transaction(s)
          \/ tx_count(s)
          \/ tx_insertHistory(s)
          \/ tx_insertLinks(s)
          \/ tx_commit(s)
          \/ tx_rollback(s)
    /\ IntegrityScope'

SpecIntegrity == InitIntegrity /\ [][NextIntegrity]_vars

\* C22: no asset-tag link, saved-asset row or download-history link
\* references an asset id that has no asset row, whatever upload, save,
\* unsave, recordBatch, approve and deny have done
C22_ReferentialIntegrity ==
    /\ \A l \in assetToTag : l[1] \in DOMAIN asset
    /\ \A r \in savedAsset : r.assetId \in DOMAIN asset
    /\ \A i \in DOMAIN downloadHistoryToAsset :
          downloadHistoryToAsset[i].assetId \in DOMAIN asset

\* a deny has removed the uploaded asset 1 after it had been saved, while
\* asset 2 keeps its tag
C22_Witness ==
    /\ 1 \notin DOMAIN asset /\ 2 \in DOMAIN asset
    /\ \E s \in Slots : req[s].op = "deny" /\ req[s].pc = "respond" /\ req[s].code = 200
    /\ nextSavedId > 1 /\ savedAsset = {}
    /\ <<2, "t1">> \in assetToTag

\* ------------------------------------- more download-history properties

\* the batches a step removes from the committed table
Evicted(u) == BatchesOf(downloadHistory, u) \ BatchesOf(downloadHistory', u)

C23_NoDanglingLink ==
    {l.downloadHistoryId : l \in Range(downloadHistoryToAsset)}
        \subseteq {h.id : h \in Range(downloadHistory)}

C23_EvictionAtCommit ==
    \A s \in Slots :
        (req[s].op = "history" /\ req[s].pc = "commit" /\ req'[s].pc = "respond"
         /\ req'[s].code = 200)
        => LET u == req[s].user
               c == Cardinality(BatchesOf(downloadHistory, u)) IN
           /\ c < HistoryCap => Evicted(u) = {}
           /\ c >= HistoryCap =>
                 /\ Cardinality(Evicted(u)) = c - HistoryKeep
                 /\ \A e \in Evicted(u) :
                       /\ \A r \in BatchesOf(downloadHistory, u) \ Evicted(u) :
                             e.createdAt <= r.createdAt
                       /\ LinksOf(downloadHistoryToAsset', e.id) = {}

C23_DeleteBeforeInsert ==
    (tx'.deletedHistory # tx.deletedHistory \/ tx'.deletedLinksOf # tx.deletedLinksOf)
    => (tx'.owner = 0 \/ tx.owner = 0
        \/ (tx.insertedHistory = <<>> /\ tx.insertedLinks = <<>>))

\* C23: a recordBatch with c batches of the user deletes nothing when
\* c < 500 and, when c >= 500, exactly the c - 499 oldest with all their
\* links, before it inserts the new batch; no link is left to a batch that is
\* gone
C23_EvictsOldestWithLinks ==
    /\ []C23_NoDanglingLink
    /\ [][C23_EvictionAtCommit /\ C23_DeleteBeforeInsert]_vars

\* u1 was at the cap, the call has answered 200 and one of the two oldest
\* batches is gone with its link while the new batch has its links
C23_Witness ==
    \E s \in Slots :
        /\ req[s].op = "history" /\ req[s].pc = "respond" /\ req[s].code = 200
        /\ req[s].user = "u1"
        /\ recorded["u1"] = HistoryCap + 1
        /\ \E id \in {1, 2} : /\ \A j \in DOMAIN downloadHistory : downloadHistory[j].id # id
                              /\ LinksOf(downloadHistoryToAsset, id) = {}
        /\ LinksOf(downloadHistoryToAsset, req[s].historyId) # {}

\* C24: a recordBatch is rejected exactly when one of its asset ids names no
\* asset; a list whose ids all exist is taken on, also when it repeats an id
C24_RejectedIffUnknownId ==
    [][\A s \in Slots :
          (req[s].pc = "idle" /\ req'[s].op = "history")
          => ((req'[s].pc = "respond" /\ req'[s].code = 400)
              <=> ~(Range(req'[s].assetIds) \subseteq DOMAIN asset))]_vars

\* ------------------------- recordBatch together with the history lists

\* as InitHistory, with a second, newer batch of u2
InitHistoryList ==
    /\ asset = [id \in {1, 2} |-> [status |-> "approved", gameId |-> "g1",
                                   categoryId |-> "c1", extension |-> "png",
                                   uploadedBy |-> "u1"]]
    /\ gameToCategory = {<<"g1", "c1">>}
    /\ assetToTag = {}
    /\ CDN = [p \in {<<"asset", 1, "png">>, <<"asset", 2, "png">>} |-> "f1"]
    /\ nextAssetId = 3
    /\ downloadHistory =
          <<[id |-> 0, userId |-> "u2", createdAt |-> 0]>>
          \o [i \in 1..Prefill |-> [id |-> i, userId |-> "u1", createdAt |-> (i + 1) \div 2]]
          \o <<[id |-> Prefill + 1, userId |-> "u2", createdAt |-> NowStart]>>
    /\ downloadHistoryToAsset =
          [i \in 1..(Prefill + 2) |-> [downloadHistoryId |-> i - 1, assetId |-> 1]]
    /\ tx = NoTx
    /\ nextHistoryId = Prefill + 2
    /\ now = NowStart
    /\ recorded = [u \in Users |-> IF u = "u1" THEN Prefill ELSE IF u = "u2" THEN 2 ELSE 0]
    /\ savedAsset = {}
    /\ nextSavedId = 1
    /\ search = NoSearch
    /\ req = [s \in Slots |-> Idle]

\* GET /history (part_010:131-165) by u2, u3 or without a session
AssetDownloadHistoryGetRoute ==
    /\ CanAsk
    /\ \E u \in {"u2", "u3", NoSession} : search' \in AssetDownloadHistoryGet(u)
    /\ UNCHANGED <<modVars, histVars, userVars, req>>

\* GET /user/download-history (saved-assets-list.ts:521-767), first page
UserDownloadHistoryRoute_firstPage ==
    /\ CanAsk
    /\ \E u \in {"u2", "u3", NoSession} :
          search' \in UserDownloadHistory([NoQuery EXCEPT !.caller = u])
    /\ UNCHANGED <<modVars, histVars, userVars, req>>

NextHistoryList ==
    \/ search = NoSearch /\ NextHistory
    \/ AssetDownloadHistoryGetRoute
    \/ UserDownloadHistoryRoute_firstPage
    \/ Forget

SpecHistoryList == InitHistoryList /\ [][NextHistoryList]_vars

\* the batch with this id
BatchById(id) == CHOOSE h \in Range(downloadHistory) : h.id = id

C25_OthersUntouchedOneAdded ==
    \A s \in Slots :
        (req[s].op = "history" /\ req[s].pc = "commit" /\ req'[s].pc = "respond"
         /\ req'[s].code = 200)
        => LET u == req[s].user
               added == BatchesOf(downloadHistory', u) \ BatchesOf(downloadHistory, u) IN
           /\ \A v \in Users \ {u} :
                 /\ BatchesOf(downloadHistory', v) = BatchesOf(downloadHistory, v)
                 /\ \A h \in BatchesOf(downloadHistory, v) :
                       LinksOf(downloadHistoryToAsset', h.id)
                          = LinksOf(downloadHistoryToAsset, h.id)
           /\ Cardinality(added) = 1
           /\ \A h \in added :
                 /\ h.id = req[s].historyId
                 /\ SelectSeq(downloadHistoryToAsset',
                              LAMBDA l : l.downloadHistoryId = h.id)
                       = [i \in DOMAIN req[s].assetIds |->
                             [downloadHistoryId |-> h.id, assetId |-> req[s].assetIds[i]]]

C25_ListOwnNewestFirst ==
    (search.route \in {"history", "historyGet"} /\ search.code = 200) =>
        /\ \A i \in DOMAIN search.ids : BatchById(search.ids[i]).userId = search.query.caller
        /\ \A i, j \in DOMAIN search.ids :
              i < j => BatchById(search.ids[i]).createdAt >= BatchById(search.ids[j]).createdAt
        /\ search.route = "historyGet" =>
              RangeOf(search.ids) = {h.id : h \in BatchesOf(downloadHistory, search.query.caller)}

\* C25: a recordBatch of user u leaves the batches and links of every other
\* user as they were and adds exactly one batch of u, linked to exactly the
\* submitted asset ids; a user's history list holds only that user's batches,
\* newest first
C25_HistoryOwnedByUser ==
    /\ []C25_ListOwnNewestFirst
    /\ [][C25_OthersUntouchedOneAdded]_vars

\* u2 reads its two batches, newest first, after u1 has recorded a batch with
\* an eviction
C25_Witness ==
    /\ search.route = "historyGet" /\ search.code = 200
    /\ search.query.caller = "u2"
    /\ search.ids = <<Prefill + 1, 0>>
    /\ recorded["u1"] = HistoryCap + 1

\* ------------------------- whose saves a saved-assets list shows

\* the rows the first revision selects for the session user u, part_006:72-94:
\* asset joined with saved_asset, without a condition on the user
UserSavedAssetsListRoute_rev1(u) ==
    {row \in savedAsset : row.assetId \in DOMAIN asset}

\* the rows the second revision selects for u, part_006:238-261
UserSavedAssetsListRoute_rev2(u) ==
    {row \in savedAsset : row.assetId \in DOMAIN asset /\ row.userId = u}

\* the assets u has saved and not unsaved
SavedBy(u) == {row.assetId : row \in {r \in savedAsset : r.userId = u}}

AssetIdsOf(rows) == {row.assetId : row \in rows}

\* C26: each saved-assets list of a user holds exactly the assets this user
\* has saved and not unsaved
C26_ListIsOwnSaves ==
    \A u \in SavedUsers :
        /\ AssetIdsOf(UserSavedAssetsListRoute_rev1(u)) = SavedBy(u)
        /\ AssetIdsOf(UserSavedAssetsListRoute_rev2(u)) = SavedBy(u)
        /\ AssetIdsOf(UserSavedAssetsList_where([NoQuery EXCEPT !.caller = u])) = SavedBy(u)

\* ------------------------- uploads that do not succeed

\* no upload is between its first and its last step
NoUploadInProgress ==
    \A s \in Slots : req[s].op = "upload" => req[s].pc \in {"idle", "respond"}

\* C27: while no upload has returned success (with the routes of
\* approval-queue.ts no asset row is ever deleted, so there is no asset row)
\* and none is in progress, the stored state is the initial one: no file, no
\* tag link, no game-category link besides the initial one
C27_FailedUploadLeavesNothing ==
    (asset = <<>> /\ NoUploadInProgress) =>
        /\ CDN = <<>>
        /\ assetToTag = {}
        /\ gameToCategory = {<<"g1", "c1">>}

\* ------------------------- storage against status

\* every operation that was started has produced its response
AllCompleted == \A s \in Slots : req[s].pc \in {"idle", "respond"}

\* a pending asset has its file in limbo/ only, part_009:247-256
PendingInLimbo ==
    \A id \in DOMAIN asset :
        asset[id].status = "pending"
        => /\ limboPath(asset[id], id) \in DOMAIN CDN
           /\ assetPath(asset[id], id) \notin DOMAIN CDN

\* an approved asset has its file in asset/ only, part_009:247-256
ApprovedInAsset ==
    \A id \in DOMAIN asset :
        asset[id].status = "approved"
        => /\ assetPath(asset[id], id) \in DOMAIN CDN
           /\ limboPath(asset[id], id) \notin DOMAIN CDN

\* every stored object belongs to an asset row, upload.ts:380-406 and
\* part_009:273-281
NoOrphanObject == \A p \in DOMAIN CDN : p[2] \in DOMAIN asset

\* C28: once every started upload, approve and deny has completed, storage
\* and status agree
C28_StorageAgreesWithStatus ==
    AllCompleted => (PendingInLimbo /\ ApprovedInAsset /\ NoOrphanObject)

\* ------------------------- GET /asset/{id} against the status

\* C29: GET /asset/{id} answers 200 exactly for an approved asset and 404
\* for a pending one, a denied one and an id with no row
C29_OnlyApprovedReadable ==
    \A id \in 1..MaxAssets :
        AssetIdRoute(id) =
            IF id \in DOMAIN asset /\ asset[id].status = "approved" THEN 200 ELSE 404

\* ------------------------- repeated slugs in the tag filter

\* the list without its repetitions, first occurrences kept
RECURSIVE Deduplicated(_)
Deduplicated(list) ==
    IF list = <<>> THEN <<>>
    ELSE LET front == Deduplicated(SubSeq(list, 1, Len(list) - 1))
             last == list[Len(list)] IN
         IF last \in RangeOf(front) THEN front ELSE Append(front, last)

\* the query with each slug of its tag filter given once
WithoutRepeatedTags(q) == [q EXCEPT !.tags = Deduplicated(filterBoolean(q.tags))]

\* C30: the rows a search matches are those it matches with the
\* de-duplicated list of its tag slugs
C30_TagFilterIsASet ==
    /\ (search.route = "search" /\ search.code = 200)
          => AssetSearch_where(search.query)
                = AssetSearch_where(WithoutRepeatedTags(search.query))
    /\ (search.route = "paged" /\ search.code = 200)
          => AssetSearch_paged_where(search.query)
                = AssetSearch_paged_where(WithoutRepeatedTags(search.query))

====
